---- MODULE Spec2Model ----
(***************************************************************************)
(* prepare_custom_dataset.py: a folder of JSONL transcript files is turned *)
(* into one manifest.  The parent globs the folder, truncates the output,  *)
(* submits one process_file task per matched file to a process pool and    *)
(* then consumes the futures in submission order, writing the records of   *)
(* each file and counting them.                                            *)
(***************************************************************************)
EXTENDS Integers, Sequences, FiniteSets, TLC

\* ------------------------------------------------------------------ bounds
\* Spec: the folder holds at most MaxFiles matched files ...
MaxFiles == 2
\* ... with at most MaxTotalLines lines in all.
MaxTotalLines == 3
\* SpecLines: at most one matched file, of at most MaxLines lines.
MaxLines == 3

\* ------------------------------------------------------ run parameters
\* The three parameters a run passes unchanged to every process_file call.
source_lang == "eng"
target_lang == "hin"
sampling_rate == 16000

\* ------------------------------------------------------------ input lines
\* A line of an input file, after line.strip(), by the path it takes through
\* the inner try block:
\*   json      "blank"   the stripped line is empty
\*             "invalid" json.loads raises
\*             "array"   json.loads returns a value that is no dict
\*             "object"  json.loads returns a dict
\*   audio     "absent"  no key audio; "scalar" the value is no dict;
\*             "dict"    the value is a dict (hasPath: it has the key path)
Form(j, s, t, a, p) ==
  [json |-> j, hasSentence |-> s, hasTranslation |-> t, audio |-> a, hasPath |-> p]

Blank == Form("blank", FALSE, FALSE, "absent", FALSE)
InvalidJson == Form("invalid", FALSE, FALSE, "absent", FALSE)
JsonArray == Form("array", FALSE, FALSE, "absent", FALSE)
Full == Form("object", TRUE, TRUE, "dict", TRUE)
NoSentence == Form("object", FALSE, TRUE, "dict", TRUE)
NoTranslation == Form("object", TRUE, FALSE, "dict", TRUE)
NoAudio == Form("object", TRUE, TRUE, "absent", FALSE)
AudioScalar == Form("object", TRUE, TRUE, "scalar", FALSE)
AudioNoPath == Form("object", TRUE, TRUE, "dict", FALSE)
EmptyObject == Form("object", FALSE, FALSE, "absent", FALSE)

\* The forms SpecLines draws a file's lines from: one per path through the
\* loop body.
LineForms ==
  {Blank, InvalidJson, JsonArray, Full, NoSentence, NoTranslation, NoAudio,
   AudioScalar, AudioNoPath, EmptyObject}

\* The forms Spec draws from.
BatchForms == {Full, InvalidJson}

\* The text values of the line tagged tag (its file and line number): every
\* line of the folder carries its own texts, so that records can be told
\* apart.
SentenceOf(line) == <<"sentence", line.tag[1], line.tag[2]>>
TranslationOf(line) == <<"translation", line.tag[1], line.tag[2]>>
PathOf(line) == <<"path", line.tag[1], line.tag[2]>>
\* The empty string.
EmptyText == <<>>

\* ------------------------------------------------------------ input files
\* A matched file: opens (open() succeeds), its lines, and delivered, the
\* number of lines the file iterator yields before it raises (a decoding or
\* I/O error of the read); delivered = Len(lines) when the read never fails.
\* The text layer decodes the file block by block, so the iterator may raise
\* before lines that stand ahead of the bytes it cannot decode: delivered is
\* any number below Len(lines).
MkFile(forms, d, f) ==
  [opens |-> TRUE,
   lines |-> [l \in 1..Len(forms) |-> [form |-> forms[l], tag |-> <<f, l>>]],
   delivered |-> d]

Unopenable == [opens |-> FALSE, lines |-> <<>>, delivered |-> 0]

RECURSIVE SumTo(_, _)
\* lens[1] + ... + lens[n]
SumTo(lens, n) == IF n = 0 THEN 0 ELSE lens[n] + SumTo(lens, n - 1)

\* The matched list of n files of lens[f] lines each, whose forms are those of
\* flat in order; file f opens iff opens[f], and its read yields del[f] lines.
MkFolder(n, lens, flat, opens, del) ==
  [f \in 1..n |->
     IF opens[f]
       THEN MkFile([l \in 1..lens[f] |-> flat[SumTo(lens, f - 1) + l]], del[f], f)
       ELSE Unopenable]

\* The record the output path holds from an earlier run.
OldRecord ==
  [source |-> [id |-> <<0, 0>>, text |-> <<"sentence", 0, 0>>, lang |-> "old",
               audio_local_path |-> <<"path", 0, 0>>, sampling_rate |-> 0],
   target |-> [id |-> <<0, 0>>, text |-> <<"translation", 0, 0>>, lang |-> "old"]]

\* ------------------------------------------------------------------ state
VARIABLES
  files,        \* file_paths: the matched files, in glob's order
  manifest,     \* the lines of the file at output_manifest
  pc,           \* the parent's position in prepare_manifest
  sample_count, \* line 76
  cur,          \* the place of the (future, file_path) pair the loop of line 84 is at
  pending,      \* the samples of the current future still to be written
  futures,      \* per submitted file: "none", "running", "returned", "raised"
  results,      \* per file: the list its process_file call returned
  workerLog,    \* per file: what its process_file call logged
  parentLog     \* what prepare_manifest logged

vars ==
  <<files, manifest, pc, sample_count, cur, pending, futures, results,
    workerLog, parentLog>>

NFiles == Len(files)

\* ------------------------------------------------------------ process_file
\* Mutant: the id is drawn once per file, not once per record.
Uuid4PerFile(w, n) == <<w, 0>>

\* uuid.uuid4(): 122 random bits from the operating system. Each call yields
\* a value of its own, named here by the worker w and the number n of the
\* call in that worker.
Uuid4(w, n) == <<w, n>>

\* Mutant: raw_sample.get("sentence"), without the default.
SourceTextNoDefault(line) ==
  IF line.form.hasSentence THEN SentenceOf(line) ELSE <<"None">>

\* raw_sample.get("sentence", "")
SourceText(line) ==
  IF line.form.hasSentence THEN SentenceOf(line) ELSE EmptyText

\* Mutant: the two languages change places.
ManifestSampleSwappedLang(line, sample_id, src_lang, tgt_lang, rate) ==
  [source |-> [id |-> sample_id,
               text |-> SourceText(line),
               lang |-> tgt_lang,
               audio_local_path |-> PathOf(line),
               sampling_rate |-> rate],
   target |-> [id |-> sample_id,
               text |-> TranslationOf(line),
               lang |-> src_lang]]

\* The dict literal of lines 37-50.
ManifestSample(line, sample_id, src_lang, tgt_lang, rate) ==
  [source |-> [id |-> sample_id,
               text |-> SourceText(line),
               lang |-> src_lang,
               audio_local_path |-> PathOf(line),
               sampling_rate |-> rate],
   target |-> [id |-> sample_id,
               text |-> TranslationOf(line),
               lang |-> tgt_lang]]

\* Mutant: raw_sample.get("translation") instead of raw_sample["translation"].
RaisedTranslationOptional(line) ==
  CASE line.form.json = "blank" -> "none"
    [] line.form.json = "invalid" -> "JSONDecodeError"
    [] line.form.json = "array" -> "AttributeError"
    [] line.form.audio = "absent" -> "KeyError: audio"
    [] line.form.audio = "scalar" -> "TypeError"
    [] ~line.form.hasPath -> "KeyError: path"
    [] OTHER -> "none"

\* The exception the try block of lines 34-51 raises on line, in the order
\* the expressions are evaluated, or "none" (a blank line never enters it).
Raised(line) ==
  CASE line.form.json = "blank" -> "none"
    [] line.form.json = "invalid" -> "JSONDecodeError"
    [] line.form.json = "array" -> "AttributeError"
    [] line.form.audio = "absent" -> "KeyError: audio"
    [] line.form.audio = "scalar" -> "TypeError"
    [] ~line.form.hasPath -> "KeyError: path"
    [] ~line.form.hasTranslation -> "KeyError: translation"
    [] OTHER -> "none"

LineError(w, exc) ==
  [level |-> "ERROR", msg |-> "Error processing line in file", file |-> w, arg |-> exc]
ReadError(w) ==
  [level |-> "ERROR", msg |-> "Error reading file", file |-> w, arg |-> "exception"]

\* One turn of the loop of line 30 on acc = [samples, log, nids], nids being
\* the number of uuid4 calls the worker has made.
ProcessLine(acc, line, w, src_lang, tgt_lang, rate) ==
  IF line.form.json = "blank" THEN acc
  ELSE IF Raised(line) = "JSONDecodeError"
    THEN [acc EXCEPT !.log = Append(@, LineError(w, Raised(line)))]
  ELSE LET sample_id == Uuid4(w, acc.nids + 1)
           acc1 == [acc EXCEPT !.nids = @ + 1]
       IN IF Raised(line) # "none"
            THEN [acc1 EXCEPT !.log = Append(@, LineError(w, Raised(line)))]
            ELSE [acc1 EXCEPT !.samples =
                    Append(@, ManifestSample(line, sample_id, src_lang, tgt_lang, rate))]

RECURSIVE ProcessLines(_, _, _, _, _, _, _, _)
\* The loop of line 30 over lines[from..upto].
ProcessLines(acc, lines, from, upto, w, src_lang, tgt_lang, rate) ==
  IF from > upto THEN acc
  ELSE ProcessLines(ProcessLine(acc, lines[from], w, src_lang, tgt_lang, rate),
                    lines, from + 1, upto, w, src_lang, tgt_lang, rate)

\* The first line among lines 1..upto that is malformed, or upto + 1.
FirstRaising(lines, upto) ==
  LET bad == {l \in 1..upto : lines[l].form.json # "blank" /\ Raised(lines[l]) # "none"}
  IN IF bad = {} THEN upto + 1 ELSE CHOOSE l \in bad : \A m \in bad : l <= m

\* Mutant: no inner try; the exception of a line reaches the handler of
\* line 54, which ends the file.
process_file_no_inner_try(w, src_lang, tgt_lang, rate) ==
  LET file == files[w]
      acc0 == [samples |-> <<>>, log |-> <<>>, nids |-> 0]
  IN IF ~file.opens THEN [acc0 EXCEPT !.log = <<ReadError(w)>>]
     ELSE LET stop == FirstRaising(file.lines, file.delivered)
              acc == ProcessLines(acc0, file.lines, 1, stop - 1,
                                  w, src_lang, tgt_lang, rate)
          IN IF stop <= Len(file.lines)
               THEN [acc EXCEPT !.log = Append(@, ReadError(w))]
               ELSE acc

\* process_file(file_path, ...): [samples, log, nids] at its return.
process_file(w, src_lang, tgt_lang, rate) ==
  LET file == files[w]
      acc0 == [samples |-> <<>>, log |-> <<>>, nids |-> 0]
  IN IF ~file.opens THEN [acc0 EXCEPT !.log = <<ReadError(w)>>]
     ELSE LET acc == ProcessLines(acc0, file.lines, 1, file.delivered,
                                  w, src_lang, tgt_lang, rate)
          IN IF file.delivered < Len(file.lines)
               THEN [acc EXCEPT !.log = Append(@, ReadError(w))]
               ELSE acc

\* ---------------------------------------------------------------- workers
\* Mutant: the worker appends its samples to the output itself.
WorkerReturnWrites(w) ==
  /\ futures[w] = "running"
  /\ LET r == process_file(w, source_lang, target_lang, sampling_rate)
     IN /\ results' = [results EXCEPT ![w] = <<>>]
        /\ workerLog' = [workerLog EXCEPT ![w] = r.log]
        /\ manifest' = manifest \o r.samples
        /\ sample_count' = sample_count + Len(r.samples)
  /\ futures' = [futures EXCEPT ![w] = "returned"]
  /\ UNCHANGED <<files, pc, cur, pending, parentLog>>

\* The pool runs the task of file w to its end and sets the future's result.
WorkerReturn(w) ==
  /\ futures[w] = "running"
  /\ LET r == process_file(w, source_lang, target_lang, sampling_rate)
     IN /\ results' = [results EXCEPT ![w] = r.samples]
        /\ workerLog' = [workerLog EXCEPT ![w] = r.log]
  /\ futures' = [futures EXCEPT ![w] = "returned"]
  /\ UNCHANGED <<files, manifest, pc, sample_count, cur, pending, parentLog>>

\* The future of file w gets an exception instead (the worker process died,
\* the pool broke): process_file itself lets no Exception out. What such a
\* worker logged before is not recorded.
WorkerRaise(w) ==
  /\ futures[w] = "running"
  /\ futures' = [futures EXCEPT ![w] = "raised"]
  /\ UNCHANGED <<files, manifest, pc, sample_count, cur, pending, results,
                 workerLog, parentLog>>

\* ----------------------------------------------------------------- parent
Log(level, msg, arg) == [level |-> level, msg |-> msg, arg |-> arg]

\* Lines 70-74: no file matches.
NoFiles ==
  /\ pc = "glob"
  /\ NFiles = 0
  /\ parentLog' = Append(parentLog, Log("ERROR", "No JSONL files found in folder", 0))
  /\ pc' = "done"
  /\ UNCHANGED <<files, manifest, sample_count, cur, pending, futures, results, workerLog>>

\* Mutant: the output is opened with mode "a".
OpenOutputAppend ==
  /\ pc = "glob"
  /\ NFiles > 0
  /\ sample_count' = 0
  /\ pc' = "submit"
  /\ UNCHANGED <<files, manifest, cur, pending, futures, results, workerLog, parentLog>>

\* Lines 70-77: some file matches; the output is opened with mode "w".
OpenOutput ==
  /\ pc = "glob"
  /\ NFiles > 0
  /\ sample_count' = 0
  /\ manifest' = <<>>
  /\ pc' = "submit"
  /\ UNCHANGED <<files, cur, pending, futures, results, workerLog, parentLog>>

\* Lines 79-82: one task per matched file.
Submit ==
  /\ pc = "submit"
  /\ futures' = [w \in 1..NFiles |-> "running"]
  /\ cur' = 1
  /\ pc' = "collect"
  /\ UNCHANGED <<files, manifest, sample_count, pending, results, workerLog, parentLog>>

\* Line 86: future.result() returns the samples of the current file.
ResultReturns ==
  /\ pc = "collect"
  /\ cur <= NFiles
  /\ futures[cur] = "returned"
  /\ pending' = results[cur]
  /\ pc' = "write"
  /\ UNCHANGED <<files, manifest, sample_count, cur, futures, results, workerLog, parentLog>>

\* Mutant: no try around future.result(); the exception ends the run.
ResultRaisesAborts ==
  /\ pc = "collect"
  /\ cur <= NFiles
  /\ futures[cur] = "raised"
  /\ pc' = "done"
  /\ UNCHANGED <<files, manifest, sample_count, cur, pending, futures, results,
                 workerLog, parentLog>>

\* Lines 86, 91-92: future.result() raises; the file is logged and skipped.
ResultRaises ==
  /\ pc = "collect"
  /\ cur <= NFiles
  /\ futures[cur] = "raised"
  /\ parentLog' = Append(parentLog, Log("ERROR", "Error processing file", cur))
  /\ cur' = cur + 1
  /\ UNCHANGED <<files, manifest, pc, sample_count, pending, futures, results, workerLog>>

\* Mutant: the sample is written and not counted.
WriteSampleUncounted ==
  /\ pc = "write"
  /\ pending # <<>>
  /\ manifest' = Append(manifest, Head(pending))
  /\ pending' = Tail(pending)
  /\ UNCHANGED <<files, pc, sample_count, cur, futures, results, workerLog, parentLog>>

\* Lines 87-89: one sample is written and counted.
WriteSample ==
  /\ pc = "write"
  /\ pending # <<>>
  /\ manifest' = Append(manifest, Head(pending))
  /\ sample_count' = sample_count + 1
  /\ pending' = Tail(pending)
  /\ UNCHANGED <<files, pc, cur, futures, results, workerLog, parentLog>>

\* Line 90: the samples of the current file are all written.
FileProcessed ==
  /\ pc = "write"
  /\ pending = <<>>
  /\ parentLog' = Append(parentLog, Log("INFO", "Processed file", cur))
  /\ cur' = cur + 1
  /\ pc' = "collect"
  /\ UNCHANGED <<files, manifest, sample_count, pending, futures, results, workerLog>>

\* Mutant: the loop stops one pair short.
SavedEarly ==
  /\ pc = "collect"
  /\ cur >= NFiles
  /\ parentLog' = Append(parentLog, Log("INFO", "Saved samples to manifest", sample_count))
  /\ pc' = "done"
  /\ UNCHANGED <<files, manifest, sample_count, cur, pending, futures, results, workerLog>>

\* Lines 84, 93: the loop is over, the pool and the output are closed, the
\* count is logged.
Saved ==
  /\ pc = "collect"
  /\ cur > NFiles
  /\ parentLog' = Append(parentLog, Log("INFO", "Saved samples to manifest", sample_count))
  /\ pc' = "done"
  /\ UNCHANGED <<files, manifest, sample_count, cur, pending, futures, results, workerLog>>

\* ---------------------------------------------------------- specifications
\* files is a matched list of at most maxFiles files with at most budget
\* lines in all, drawn from forms.
FolderOf(forms, maxFiles, budget) ==
  \E n \in 0..maxFiles :
    \E lens \in [1..n -> 0..budget], opens \in [1..n -> BOOLEAN] :
      /\ SumTo(lens, n) <= budget
      /\ \A f \in 1..n : ~opens[f] => lens[f] = 0
      /\ \E del \in [1..n -> 0..budget] :
           /\ \A f \in 1..n : del[f] <= lens[f]
           /\ \E flat \in [1..SumTo(lens, n) -> forms] :
                files = MkFolder(n, lens, flat, opens, del)

InitRun ==
  /\ manifest = <<OldRecord>>
  /\ pc = "glob"
  /\ sample_count = 0
  /\ cur = 0
  /\ pending = <<>>
  /\ futures = [w \in 1..NFiles |-> "none"]
  /\ results = [w \in 1..NFiles |-> <<>>]
  /\ workerLog = [w \in 1..NFiles |-> <<>>]
  /\ parentLog = <<>>

Init ==
  /\ FolderOf(BatchForms, MaxFiles, MaxTotalLines)
  /\ InitRun

InitLines ==
  /\ FolderOf(LineForms, 1, MaxLines)
  /\ InitRun

Next ==
  \/ NoFiles
  \/ OpenOutput
  \/ Submit
  \/ ResultReturns
  \/ ResultRaises
  \/ WriteSample
  \/ FileProcessed
  \/ Saved
  \/ \E w \in 1..NFiles : WorkerReturn(w)
  \/ \E w \in 1..NFiles : WorkerRaise(w)

Spec == Init /\ [][Next]_vars

SpecLines == InitLines /\ [][Next]_vars

\* The parent runs on; every worker ends (its future returns or raises).
Parent ==
  \/ NoFiles \/ OpenOutput \/ Submit \/ ResultReturns \/ ResultRaises
  \/ WriteSample \/ FileProcessed \/ Saved

Worker(w) == w \in 1..NFiles /\ (WorkerReturn(w) \/ WorkerRaise(w))

FairSpec ==
  /\ Init
  /\ [][Next]_vars
  /\ WF_vars(Parent)
  /\ \A w \in 1..MaxFiles : WF_vars(Worker(w))

\* ------------------------------------------------- what the claims speak of
\* The line parses as a JSON object with translation and audio.path.
WellFormed(line) ==
  /\ line.form.json = "object"
  /\ line.form.hasTranslation
  /\ line.form.audio = "dict"
  /\ line.form.hasPath

\* A non-blank line that is not well-formed.
Malformed(line) == line.form.json # "blank" /\ ~WellFormed(line)

LinesOf(f) == 1..Len(files[f].lines)

\* Line l of file f is read: the file opens and the read yields the line.
Delivered(f, l) == files[f].opens /\ l <= files[f].delivered

\* The read of file f fails: open() raises, or the iterator does.
ReadFails(f) == ~files[f].opens \/ files[f].delivered < Len(files[f].lines)

\* The places of seq that hold a record of line (by its audio path).
RecordsFor(seq, line) ==
  {i \in DOMAIN seq : seq[i].source.audio_local_path = PathOf(line)}

\* The entries of log with message msg.
Entries(log, msg) == {i \in DOMAIN log : log[i].msg = msg}

\* The output path has been opened by this run.
Opened == NFiles > 0 /\ pc # "glob"

\* The run is over and the folder held a matching file.
Finished == NFiles > 0 /\ pc = "done"

\* ---------------------------------------------------------------------- C1
\* C1 as stated: after prepare_manifest completes on a folder with a matching
\* file, every non-blank line of every matched file that parses as a JSON
\* object with translation and audio.path has exactly one record in the
\* manifest, and every record of the manifest is the record of such a line.
C1_AsStated ==
  Finished =>
    /\ \A f \in 1..NFiles : \A l \in LinesOf(f) :
         Cardinality(RecordsFor(manifest, files[f].lines[l]))
           = IF WellFormed(files[f].lines[l]) THEN 1 ELSE 0
    /\ \A i \in DOMAIN manifest : \E f \in 1..NFiles : \E l \in LinesOf(f) :
         /\ WellFormed(files[f].lines[l])
         /\ i \in RecordsFor(manifest, files[f].lines[l])

\* C1 amended: after prepare_manifest completes on a folder with a matching
\* file, the manifest holds exactly one record per line that was read and
\* parsed and whose file's future returned: a line has one record if its
\* file's future returned, the read yielded the line and the line parses as
\* a JSON object with translation and audio.path, and no record otherwise;
\* every record of the manifest is the record of such a line.
C1_OneRecordPerParsedLine ==
  Finished =>
    /\ \A f \in 1..NFiles : \A l \in LinesOf(f) :
         Cardinality(RecordsFor(manifest, files[f].lines[l]))
           = IF /\ futures[f] = "returned"
                /\ Delivered(f, l)
                /\ WellFormed(files[f].lines[l])
               THEN 1 ELSE 0
    /\ \A i \in DOMAIN manifest : \E f \in 1..NFiles : \E l \in LinesOf(f) :
         i \in RecordsFor(manifest, files[f].lines[l])

\* A finished run over a file with a blank, a malformed and two well-formed
\* lines among the lines read, whose two records are in the manifest.
C1_Witness ==
  /\ Finished
  /\ futures[1] = "returned"
  /\ \E l \in LinesOf(1) : Delivered(1, l) /\ Malformed(files[1].lines[l])
  /\ \E l \in LinesOf(1) : Delivered(1, l) /\ WellFormed(files[1].lines[l])
  /\ Len(manifest) = 1
  /\ Len(files[1].lines) = 3

\* ---------------------------------------------------------------------- C2
\* The number of malformed lines among lines 1..upto of file f.
MalformedUpTo(f, upto) ==
  Cardinality({l \in LinesOf(f) : l <= upto /\ Malformed(files[f].lines[l])})

\* The well-formed lines among lines 1..upto of file f.
WellFormedUpTo(f, upto) ==
  {l \in LinesOf(f) : l <= upto /\ WellFormed(files[f].lines[l])}

\* process_file on file f skipped and logged the malformed lines among lines
\* 1..upto and produced the records of the well-formed ones, and the parent
\* wrote them: one line error per malformed line, no record for it, one
\* record per well-formed line, in the result and, once the run is over, in
\* the manifest.
SkippedAndLogged(f, upto) ==
  /\ Cardinality(Entries(workerLog[f], "Error processing line in file"))
       = MalformedUpTo(f, upto)
  /\ \A l \in LinesOf(f) :
       Cardinality(RecordsFor(results[f], files[f].lines[l]))
         = IF l \in WellFormedUpTo(f, upto) THEN 1 ELSE 0
  /\ Len(results[f]) = Cardinality(WellFormedUpTo(f, upto))
  /\ Finished =>
       \A l \in WellFormedUpTo(f, upto) :
         Cardinality(RecordsFor(manifest, files[f].lines[l])) = 1

\* C2 as stated: for a file that opens and whose future returned, every
\* malformed line at any position is logged once and yields no record, and
\* every well-formed line before and after it yields its record, which is
\* written whatever happens to the other files.
C2_AsStated ==
  \A f \in 1..NFiles :
    (files[f].opens /\ futures[f] = "returned")
      => SkippedAndLogged(f, Len(files[f].lines))

\* C2 amended: the same of the lines the read of the file yields: a malformed
\* line that is read is logged once and yields no record, and every
\* well-formed line read before and after it yields its record; a read that
\* fails part-way ends the file there (the lines from the failure on are
\* neither logged nor turned into records). The records are written whatever
\* happens to the other files.
C2_MalformedLineSkipped ==
  \A f \in 1..NFiles :
    (files[f].opens /\ futures[f] = "returned")
      => SkippedAndLogged(f, files[f].delivered)

\* A finished run in which file 1 is read to its end and has a malformed line
\* between two well-formed ones, while the future of file 2 raised.
C2_Witness ==
  /\ Finished
  /\ NFiles = 2
  /\ futures[1] = "returned" /\ futures[2] = "raised"
  /\ Len(files[1].lines) = 3 /\ files[1].delivered = 3
  /\ WellFormed(files[1].lines[1])
  /\ Malformed(files[1].lines[2])
  /\ WellFormed(files[1].lines[3])
  /\ Len(manifest) = 2

\* ---------------------------------------------------------------------- C3
\* The records this run has produced: those written to the manifest and
\* those of the results not yet written.
Produced ==
  (IF Opened THEN {manifest[i] : i \in DOMAIN manifest} ELSE {})
    \cup UNION {{results[f][i] : i \in DOMAIN results[f]} : f \in 1..NFiles}

\* C3: in every record source.id equals target.id, and no two records of the
\* manifest, of one file or of two, carry the same id.
C3_SharedFreshId ==
  /\ \A r \in Produced : r.source.id = r.target.id
  /\ Opened =>
       \A i, j \in DOMAIN manifest :
         i # j => /\ manifest[i].source.id # manifest[j].source.id
                  /\ manifest[i].target.id # manifest[j].target.id

\* A finished run whose manifest holds two records of one file and one of
\* another.
C3_Witness ==
  /\ Finished
  /\ Len(manifest) = 3
  /\ manifest[1].source.audio_local_path[2] = 1
  /\ manifest[2].source.audio_local_path[2] = 1
  /\ manifest[3].source.audio_local_path[2] = 2

\* ---------------------------------------------------------------------- C4
\* The line is a JSON object that lacks translation, audio or audio.path.
LacksRequired(line) ==
  /\ line.form.json = "object"
  /\ \/ ~line.form.hasTranslation
     \/ line.form.audio # "dict"
     \/ ~line.form.hasPath

\* C4: of the lines process_file read, one that lacks only sentence yields
\* one record, whose source.text is the empty string; one that lacks
\* translation, audio or audio.path yields no record, and the log holds one
\* line error per malformed line (so one for it).
C4_FieldRequirements ==
  \A f \in 1..NFiles :
    futures[f] = "returned" =>
      /\ \A l \in LinesOf(f) :
           LET line == files[f].lines[l] IN
           /\ (Delivered(f, l) /\ WellFormed(line) /\ ~line.form.hasSentence) =>
                /\ Cardinality(RecordsFor(results[f], line)) = 1
                /\ \A i \in RecordsFor(results[f], line) :
                     results[f][i].source.text = EmptyText
           /\ (Delivered(f, l) /\ LacksRequired(line)) =>
                RecordsFor(results[f], line) = {}
      /\ Cardinality(Entries(workerLog[f], "Error processing line in file"))
           = MalformedUpTo(f, files[f].delivered)

\* process_file has returned on a file, read to its end, of a line without
\* sentence, a line without translation and a line without audio: one
\* record, two line errors.
C4_Witness ==
  /\ NFiles = 1
  /\ futures[1] = "returned"
  /\ files[1].delivered = 3
  /\ files[1].lines[1].form = NoSentence
  /\ files[1].lines[2].form = NoTranslation
  /\ files[1].lines[3].form = NoAudio
  /\ Len(results[1]) = 1
  /\ Len(workerLog[1]) = 2

\* ---------------------------------------------------------------------- C5
\* C5: every record of the manifest has the fields source = {id, text, lang,
\* audio_local_path, sampling_rate} and target = {id, text, lang}; its texts
\* and its path are those of one line (source.text the line's sentence, the
\* empty string when it has none), and its languages and sampling rate are
\* the parameters of the run.
C5_RecordShape ==
  \A r \in Produced :
    /\ DOMAIN r = {"source", "target"}
    /\ DOMAIN r.source = {"id", "text", "lang", "audio_local_path", "sampling_rate"}
    /\ DOMAIN r.target = {"id", "text", "lang"}
    /\ \E f \in 1..NFiles : \E l \in LinesOf(f) :
         LET line == files[f].lines[l] IN
         /\ r.source.audio_local_path = PathOf(line)
         /\ r.source.text =
              IF line.form.hasSentence THEN SentenceOf(line) ELSE EmptyText
         /\ r.target.text = TranslationOf(line)
    /\ r.source.lang = source_lang
    /\ r.target.lang = target_lang
    /\ r.source.sampling_rate = sampling_rate

\* A finished run whose manifest holds a record of file 1 and a record of
\* file 2, each with the texts of its own line.
C5_Witness ==
  /\ Finished
  /\ \E i, j \in DOMAIN manifest :
       /\ manifest[i].source.audio_local_path = <<"path", 1, 1>>
       /\ manifest[i].source.text = <<"sentence", 1, 1>>
       /\ manifest[j].source.audio_local_path = <<"path", 2, 2>>
       /\ manifest[j].target.text = <<"translation", 2, 2>>

\* ---------------------------------------------------------------------- C6
\* What a record says, its ids left out.
Strip(r) ==
  [text |-> r.source.text, path |-> r.source.audio_local_path,
   translation |-> r.target.text]

\* What the record of a well-formed line says.
Content(line) ==
  [text |-> IF line.form.hasSentence THEN SentenceOf(line) ELSE EmptyText,
   path |-> PathOf(line),
   translation |-> TranslationOf(line)]

RECURSIVE ExpectedFrom(_, _)
\* The contents of the well-formed lines among the lines l.. that the read
\* of file f yields, in the order of the lines.
ExpectedFrom(f, l) ==
  IF ~Delivered(f, l) \/ l > Len(files[f].lines) THEN <<>>
  ELSE (IF WellFormed(files[f].lines[l]) THEN <<Content(files[f].lines[l])>> ELSE <<>>)
         \o ExpectedFrom(f, l + 1)

\* What file f adds to the manifest: nothing unless its future returned.
Contribution(f) ==
  IF futures[f] = "returned" THEN ExpectedFrom(f, 1) ELSE <<>>

RECURSIVE ContributionsUpTo(_)
\* The contributions of files 1..n, in the order of the matched list.
ContributionsUpTo(n) ==
  IF n = 0 THEN <<>> ELSE ContributionsUpTo(n - 1) \o Contribution(n)

\* What the parent has written so far, from its position alone: the files
\* before the current one, whole and in order, and of the current one the
\* samples no longer pending.
Written ==
  IF cur = 0 THEN <<>>
  ELSE ContributionsUpTo(cur - 1)
         \o (IF pc = "write"
               THEN SubSeq(Contribution(cur), 1, Len(Contribution(cur)) - Len(pending))
               ELSE <<>>)

\* C6: the manifest is written by the parent alone and in one order: at every
\* point it holds, ids aside, the records of the files the parent has
\* consumed, file by file in the order of the matched list and line by line
\* within a file, whatever the workers of the later files have done and in
\* whatever order the workers completed.
C6_SerializedWrite ==
  Opened => [i \in DOMAIN manifest |-> Strip(manifest[i])] = Written

\* The parent is writing the records of file 1 while the worker of file 2,
\* which has records too, has already returned.
C6_Witness ==
  /\ NFiles = 2
  /\ pc = "write"
  /\ cur = 1
  /\ Len(manifest) = 1
  /\ Len(pending) = 1
  /\ futures[2] = "returned"
  /\ Len(results[2]) = 1

\* ---------------------------------------------------------------------- C7
\* The entries of the parent's log with message msg about file f.
ParentEntries(msg, f) ==
  {i \in Entries(parentLog, msg) : parentLog[i].arg = f}

\* The places of the manifest that hold a record of a line of file f.
RecordsOfFile(f) ==
  {i \in DOMAIN manifest : manifest[i].source.audio_local_path[2] = f}

\* C7: a file that cannot be opened yields no record and one logged error; a
\* file whose future raised yields no record and one logged error; and when
\* the run is over every record of every file whose future returned is in
\* the manifest.
C7_FileFailureSkipped ==
  /\ \A f \in 1..NFiles :
       (~files[f].opens /\ futures[f] = "returned") =>
         /\ results[f] = <<>>
         /\ workerLog[f] = <<ReadError(f)>>
  /\ \A f \in 1..NFiles :
       (futures[f] = "raised" /\ cur > f) =>
         /\ Cardinality(ParentEntries("Error processing file", f)) = 1
         /\ ParentEntries("Processed file", f) = {}
         /\ RecordsOfFile(f) = {}
  /\ Finished =>
       \A f \in 1..NFiles :
         /\ futures[f] \in {"returned", "raised"}
         /\ futures[f] = "returned" =>
              /\ Cardinality(RecordsOfFile(f)) = Len(results[f])
              /\ \A i \in DOMAIN results[f] : \E j \in RecordsOfFile(f) :
                   manifest[j] = results[f][i]

\* A finished run in which the future of file 1 raised and the two records of
\* file 2 are in the manifest.
C7_Witness ==
  /\ Finished
  /\ NFiles = 2
  /\ futures[1] = "raised"
  /\ Len(files[1].lines) > 0
  /\ futures[2] = "returned"
  /\ Len(results[2]) = 2
  /\ Len(manifest) = 2

\* ---------------------------------------------------------------------- C8
\* C8: from the opening of the output on, sample_count is the number of lines
\* written to the manifest, and the count of the "Saved" log is the number
\* of records the manifest holds.
C8_CountMatchesOutput ==
  /\ Opened => sample_count = Len(manifest)
  /\ \A i \in Entries(parentLog, "Saved samples to manifest") :
       parentLog[i].arg = Len(manifest)
  /\ Finished =>
       Cardinality(Entries(parentLog, "Saved samples to manifest")) = 1

\* A finished run that has logged "Saved 3 samples".
C8_Witness ==
  /\ Finished
  /\ Len(manifest) = 3
  /\ \E i \in Entries(parentLog, "Saved samples to manifest") : parentLog[i].arg = 3

\* ---------------------------------------------------------------------- C9
\* C9: with no matching file the run logs one error and ends: the manifest of
\* the earlier run is left as it was, nothing is submitted and no "Saved" is
\* logged. With a matching file the output is truncated on opening: from
\* then on the manifest holds no record of the earlier run, only records
\* this run has produced.
C9_OutputOpenedOnlyOnMatch ==
  /\ NFiles = 0 =>
       /\ manifest = <<OldRecord>>
       /\ pc \in {"glob", "done"}
       /\ cur = 0
       /\ Entries(parentLog, "Saved samples to manifest") = {}
       /\ pc = "done" =>
            parentLog = <<Log("ERROR", "No JSONL files found in folder", 0)>>
  /\ Opened =>
       \A i \in DOMAIN manifest :
         /\ manifest[i] # OldRecord
         /\ \E f \in 1..NFiles : \E j \in DOMAIN results[f] :
              manifest[i] = results[f][j]

\* The run has ended on a folder without a matching file.
C9_Witness ==
  /\ NFiles = 0
  /\ pc = "done"
  /\ manifest = <<OldRecord>>
  /\ Len(parentLog) = 1

\* --------------------------------------------------------------------- C10
\* The outcomes the parent has logged for file f.
Outcomes(f) ==
  ParentEntries("Processed file", f) \cup ParentEntries("Error processing file", f)

\* Every file the loop has passed has one outcome, the others none; "Saved"
\* is logged, and the run over, only when every file has its outcome; no
\* future is submitted before Submit or left unconsumed after the loop.
OneOutcomePerFile ==
  /\ \A f \in 1..NFiles :
       Cardinality(Outcomes(f)) = IF cur > f THEN 1 ELSE 0
  /\ (Finished \/ Entries(parentLog, "Saved samples to manifest") # {}) =>
       \A f \in 1..NFiles :
         /\ Cardinality(Outcomes(f)) = 1
         /\ futures[f] \in {"returned", "raised"}
         /\ \A i \in Outcomes(f) :
              \A j \in Entries(parentLog, "Saved samples to manifest") : i < j
  /\ pc \in {"glob", "submit"} => \A f \in 1..NFiles : futures[f] = "none"

\* C10: every matched file gets exactly one outcome, "Saved" is logged only
\* after all of them, and the run ends provided every worker ends.
C10_OneOutcomeAndTermination == []OneOutcomePerFile /\ <>(pc = "done")

\* A finished run over two files, one processed and one in error.
C10_Witness ==
  /\ Finished
  /\ NFiles = 2
  /\ ParentEntries("Processed file", 1) # {}
  /\ ParentEntries("Error processing file", 2) # {}

====
